---- MODULE Spec2Model ----
(***************************************************************************)
(* Model of bayes_opt/constrained_bayesian.py: the Queue, the Observable   *)
(* event bus and the ConstrainedBayesianOptimization orchestrator.         *)
(*                                                                         *)
(* A parameter assignment (dict) is a record [keys, vals] with keys the    *)
(* tuple of its names; an array (numpy vector) is the same record with     *)
(* keys = <<>>.  The Observation Store (TargetSpace), the regressor, the   *)
(* acquisition maximizer and the bounds transformer live in modules that   *)
(* constrained_bayesian.py imports; they are modelled from their contract. *)
(***************************************************************************)
EXTENDS Integers, Sequences, FiniteSets, TLC

VARIABLES
    phase,                \* "new" | "ok" (constructed) | "failed" (__init__ raised)
    _tags,                \* self._tags
    _space,               \* self._space : tag -> Observation Store
    _gp,                  \* self._gp    : tag -> training data of the last fit
    _queue,               \* self._queue._queue
    _bounds_transformer,  \* self._bounds_transformer
    transformer,          \* self.transformer_tag, self.bounds_transformer
    _events,              \* Observable._events : event -> ordered dict
    last,                 \* the last call made on the object and what it did
    calls,                \* the number of calls made so far
    hist                  \* a Queue's history: what was added, what was returned

vars == <<phase, _tags, _space, _gp, _queue, _bounds_transformer, transformer,
          _events, last, calls, hist>>

(***************************************************************************)
(* Bounds of the model.                                                    *)
(***************************************************************************)
MaxCalls == 4      \* calls made on the object, its construction included
MaxInit == 1       \* largest init_points / n_iter passed to maximize
MaxQueueCalls == 6 \* calls made on a Queue of its own

None == "None"
NoExc == "none"

Points == 0..1
Targets == 0..1

OPTIMIZATION_START == "optimization:start"
OPTIMIZATION_STEP == "optimization:step"
OPTIMIZATION_END == "optimization:end"
DEFAULT_EVENTS == <<OPTIMIZATION_START, OPTIMIZATION_STEP, OPTIMIZATION_END>>

Range(s) == {s[i] : i \in 1..Len(s)}
Max2(a, b) == IF a >= b THEN a ELSE b
Min2(a, b) == IF a <= b THEN a ELSE b

\* The parameter vocabulary of pbounds and the dicts and arrays callers pass.
Keys == <<"x">>
Dict(ks, vs) == [keys |-> ks, vals |-> vs]
Array(vs) == [keys |-> <<>>, vals |-> vs]
PBounds == [keys |-> Keys, lo |-> <<0>>, hi |-> <<1>>]
ParamsInputs == {Dict(Keys, <<v>>) : v \in Points}
BoundsInputs ==
    {[keys |-> Keys, lo |-> <<0>>, hi |-> <<0>>],
     [keys |-> Keys, lo |-> <<0>>, hi |-> <<1>>],
     [keys |-> <<"y">>, lo |-> <<0>>, hi |-> <<1>>]}
TagInputs == {"objective", "constraint", "other"}
\* The tags argument: None, or a list of tags.
TagListInputs == {[given |-> FALSE, tags |-> <<>>],
                  [given |-> TRUE, tags |-> <<"objective">>]}
\* The bounds_transformer argument: None, or a pair (driving tag, transformer).
TransformerInputs == {[given |-> FALSE, tag |-> None],
                      [given |-> TRUE, tag |-> "objective"]}
Subscribers == {"s1"}
\* The callback argument: None (the subscriber's update method), or a callable.
CallbackInputs == {None, "cb_raise"}

(***************************************************************************)
(* Queue                                                                   *)
(***************************************************************************)
\* Faulty variant of empty: a queue of one object counts as empty.
QueueEmptyOffByOne(q) == Len(q) <= 1

QueueEmpty(q) == Len(q) = 0

\* Faulty variant of add: the object is put at the front.
QueueAddFront(q, obj) == <<obj>> \o q

QueueAdd(q, obj) == Append(q, obj)

\* Faulty variant of __next__: the newest object is taken.
QueueNextNewest(q) ==
    IF QueueEmpty(q)
    THEN [exc |-> "StopIteration", obj |-> <<>>, queue |-> q]
    ELSE [exc |-> NoExc, obj |-> <<q[Len(q)]>>, queue |-> SubSeq(q, 1, Len(q) - 1)]

\* __next__: [exc, obj, queue]
QueueNext(q) ==
    IF QueueEmpty(q)
    THEN [exc |-> "StopIteration", obj |-> <<>>, queue |-> q]
    ELSE [exc |-> NoExc, obj |-> <<q[1]>>, queue |-> SubSeq(q, 2, Len(q))]

(***************************************************************************)
(* Observation Store (TargetSpace), from its contract.                     *)
(* A store is [keys, lo, hi, obs]; obs is the ordered sequence of          *)
(* observations [x |-> vector, target |-> t].                              *)
(***************************************************************************)
StoreNew(pbounds) ==
    [keys |-> pbounds.keys, lo |-> pbounds.lo, hi |-> pbounds.hi, obs |-> <<>>]

StoreLen(store) == Len(store.obs)

StoreEmpty(store) == StoreLen(store) = 0

\* The vector of a dict in the store's key order, or of an array as it is.
AsArray(store, params) ==
    IF params.keys = <<>>
    THEN params.vals
    ELSE [i \in 1..Len(store.keys) |->
             params.vals[CHOOSE j \in 1..Len(params.keys) :
                             params.keys[j] = store.keys[i]]]

ValidParams(store, params) ==
    IF params.keys = <<>>
    THEN Len(params.vals) = Len(store.keys)
    ELSE /\ Range(params.keys) = Range(store.keys)
         /\ Len(params.keys) = Len(store.keys)

InBounds(store, x) ==
    \A i \in 1..Len(store.keys) : store.lo[i] <= x[i] /\ x[i] <= store.hi[i]

ArrayToParams(store, x) == Dict(store.keys, [i \in 1..Len(store.keys) |-> x.vals[i]])

\* register(params, target): [exc, store]
StoreRegister(store, params, target) ==
    IF ~ValidParams(store, params)
    THEN [exc |-> "DomainError", store |-> store]
    ELSE LET x == AsArray(store, params) IN
         IF ~InBounds(store, x)
         THEN [exc |-> "DomainError", store |-> store]
         ELSE IF \E i \in 1..Len(store.obs) : store.obs[i].x = x
         THEN [exc |-> "DuplicateObservationError", store |-> store]
         ELSE [exc |-> NoExc,
               store |-> [store EXCEPT !.obs = Append(@, [x |-> x, target |-> target])]]

\* The objective function f given at construction.
TargetFunc(store, params) == AsArray(store, params)[1]

\* probe(params): evaluates f at params and registers the result.
StoreProbe(store, params) ==
    IF ~ValidParams(store, params)
    THEN [exc |-> "DomainError", store |-> store]
    ELSE StoreRegister(store, params, TargetFunc(store, params))

\* random_sample(): the arrays a uniform draw within the bounds may give.
RandomSample(store) ==
    {Array(<<v>>) : v \in {p \in Points : store.lo[1] <= p /\ p <= store.hi[1]}}

\* set_bounds(new_bounds): [exc, store]
StoreSetBounds(store, new_bounds) ==
    IF Range(new_bounds.keys) # Range(store.keys)
    THEN [exc |-> "DomainError", store |-> store]
    ELSE [exc |-> NoExc,
          store |-> [store EXCEPT !.lo = AsArray(store, Dict(new_bounds.keys, new_bounds.lo)),
                                  !.hi = AsArray(store, Dict(new_bounds.keys, new_bounds.hi))]]

\* Index of the best observation: highest target, the most recent among equals.
BestIndex(obs) ==
    CHOOSE i \in 1..Len(obs) :
        \A j \in 1..Len(obs) :
            \/ obs[j].target < obs[i].target
            \/ (obs[j].target = obs[i].target /\ j <= i)

\* max(): [exc, value]
StoreMax(store) ==
    IF StoreEmpty(store)
    THEN [exc |-> "EmptyStoreError", value |-> <<>>]
    ELSE [exc |-> NoExc, value |-> <<store.obs[BestIndex(store.obs)]>>]

\* res(): [exc, value]
StoreRes(store) ==
    IF StoreEmpty(store)
    THEN [exc |-> "EmptyStoreError", value |-> <<>>]
    ELSE [exc |-> NoExc, value |-> store.obs]

\* Regressor.fit(params, target): [exc, model]; no data to fit is an error.
GpFit(store) ==
    IF StoreEmpty(store)
    THEN [exc |-> "EmptyStoreError", model |-> <<>>]
    ELSE [exc |-> NoExc, model |-> store.obs]

\* acq_max(...): the candidates the search within the bounds may return.
AcqMax(store) == RandomSample(store)

\* DomainTransformer.transform(store): bounds shrunk around the best observation.
Transform(store) ==
    IF StoreEmpty(store)
    THEN [keys |-> store.keys, lo |-> store.lo, hi |-> store.hi]
    ELSE LET b == store.obs[BestIndex(store.obs)].x IN
         [keys |-> store.keys,
          lo |-> [i \in 1..Len(store.keys) |-> Max2(store.lo[i], b[i])],
          hi |-> [i \in 1..Len(store.keys) |-> Min2(store.hi[i], b[i])]]

(***************************************************************************)
(* Observable                                                              *)
(***************************************************************************)
\* __init__(events): every event maps to an empty dict (kept in insertion order).
ObservableInit(events) == [e \in Range(events) |-> <<>>]

GetSubscribers(events, event) == events[event]

\* The index of subscriber in an ordered dict, 0 if it is no key of it.
IndexOf(subs, subscriber) ==
    IF \E i \in 1..Len(subs) : subs[i].subscriber = subscriber
    THEN CHOOSE i \in 1..Len(subs) : subs[i].subscriber = subscriber
    ELSE 0

\* Faulty variant of DictSet: the item always goes last, a present key or not.
DictSetAppend(subs, subscriber, callback) ==
    Append(subs, [subscriber |-> subscriber, callback |-> callback])

\* d[subscriber] = callback: a present key keeps its place, a new one goes last.
DictSet(subs, subscriber, callback) ==
    LET i == IndexOf(subs, subscriber)
        item == [subscriber |-> subscriber, callback |-> callback]
    IN IF i = 0 THEN Append(subs, item) ELSE [subs EXCEPT ![i] = item]

\* del d[subscriber], the key being present
DictDel(subs, subscriber) ==
    LET i == IndexOf(subs, subscriber) IN
    SubSeq(subs, 1, i - 1) \o SubSeq(subs, i + 1, Len(subs))

\* callback = getattr(subscriber, "update") if callback is None
ResolveCallback(subscriber, callback) ==
    IF callback = None THEN "update" ELSE callback

\* What running a callback does: it returns ("update"), raises ("cb_raise"),
\* subscribes a new subscriber to the event it is called for ("cb_sub"), or
\* unsubscribes its own subscriber from that event ("cb_unsub").
CallbackRaises(callback) == callback = "cb_raise"

NewSubscriber == "s3"

\* The table after callback(event, self) has run for subscriber.
CallbackEffect(events, event, subscriber, callback) ==
    IF callback = "cb_sub"
    THEN [events EXCEPT ![event] = DictSet(@, NewSubscriber, "update")]
    ELSE IF callback = "cb_unsub"
    THEN [events EXCEPT ![event] = DictDel(@, subscriber)]
    ELSE events

\* Whether the callback changes the number of keys of the dict dispatch is
\* iterating over: the iterator then raises RuntimeError at its next step.
\* Setting a key that is present changes no size.
CallbackResizes(events, event, subscriber, callback) ==
    Len(CallbackEffect(events, event, subscriber, callback)[event])
        # Len(events[event])

\* One call callback(event, self) that dispatch made.
Invocation(item, event) ==
    [subscriber |-> item.subscriber, callback |-> item.callback, event |-> event]

\* Faulty variant of Dispatch: the callbacks of every event are invoked, not
\* only those of the event dispatched.
DispatchAllEvents(events, event) ==
    LET all == events[OPTIMIZATION_START] \o events[OPTIMIZATION_STEP]
                   \o events[OPTIMIZATION_END]
    IN [exc |-> NoExc,
        invoked |-> [i \in 1..Len(all) |-> Invocation(all[i], event)],
        events |-> events]

\* Faulty variant of Dispatch: what a callback raises is caught and the loop
\* goes on to the next subscriber.
DispatchSwallows(events, event) ==
    LET subs == GetSubscribers(events, event)
    IN [exc |-> NoExc,
        invoked |-> [i \in 1..Len(subs) |-> Invocation(subs[i], event)],
        events |-> events]

\* for _, callback in self.get_subscribers(event).items(): callback(event, self)
\* The loop ends at the first callback that raises or resizes the dict; a
\* callback that does neither leaves the table as it was.
Dispatch(events, event) ==
    LET subs == GetSubscribers(events, event)
        ending == {i \in 1..Len(subs) :
                      \/ CallbackRaises(subs[i].callback)
                      \/ CallbackResizes(events, event, subs[i].subscriber,
                                         subs[i].callback)}
        stop == IF ending = {} THEN Len(subs)
                ELSE CHOOSE i \in ending : \A j \in ending : i <= j
    IN [exc |-> IF ending = {} THEN NoExc
                ELSE IF CallbackRaises(subs[stop].callback) THEN "CallbackError"
                ELSE "RuntimeError",
        invoked |-> [i \in 1..stop |-> Invocation(subs[i], event)],
        events |-> IF ending = {} THEN events
                   ELSE CallbackEffect(events, event, subs[stop].subscriber,
                                       subs[stop].callback)]

(***************************************************************************)
(* ConstrainedBayesianOptimization                                         *)
(***************************************************************************)
NoSpace == [t \in {} |-> <<>>]
EmptyDict == <<>>
NoTransformer == [set |-> FALSE, tag |-> None]

\* The record of a call: what was called, with what, and what it did.
\*   op, tag, lazy, arg, tags  the call and its arguments (tag: the tag, or the
\*                             event of subscribe/unsubscribe; arg: the params
\*                             or the new bounds, in a one-element tuple)
\*   exc, result               the exception it raised, the value it returned
\*   dispatched, invoked       the events it dispatched, the callbacks those ran
\*   fits, acq                 the tags whose fit it called, its acq_max calls
\*   evaluated, suggests       the points it evaluated, its suggest calls
\*   fresh, primed             whether Queue and primary Store were empty at the
\*                             call, the points priming then added
\*   subscriber, callback     the arguments of subscribe / unsubscribe
\*   replaced                  the subscription a subscribe overwrote
\*   flag                      the value a predicate returned
Call(op) ==
    [op |-> op, tag |-> None, lazy |-> FALSE, arg |-> <<>>,
     tags |-> [given |-> FALSE, tags |-> <<>>],
     subscriber |-> None, callback |-> None, replaced |-> <<>>, flag |-> FALSE,
     exc |-> NoExc, result |-> <<>>, dispatched |-> <<>>, invoked |-> <<>>,
     fits |-> <<>>, acq |-> 0, evaluated |-> <<>>, suggests |-> 0,
     primed |-> 0, fresh |-> FALSE, init_points |-> 0, n_iter |-> 0]

NoHistory == [added |-> <<>>, returned |-> <<>>, stops |-> 0]

Init ==
    /\ phase = "new"
    /\ _tags = <<>>
    /\ _space = NoSpace
    /\ _gp = NoSpace
    /\ _queue = <<>>
    /\ _bounds_transformer = EmptyDict
    /\ transformer = NoTransformer
    /\ _events = NoSpace
    /\ last = Call("none")
    /\ calls = 0
    /\ hist = NoHistory

\* One more call is made on the object.
Called == calls < MaxCalls /\ calls' = calls + 1 /\ hist' = hist

DefaultTags == <<"objective", "constraint">>

\* if tags is None: self._tags = [...]; nothing is assigned otherwise.
\* [set, tags]
InitTags(tags) ==
    IF ~tags.given
    THEN [set |-> TRUE, tags |-> DefaultTags]
    ELSE [set |-> FALSE, tags |-> <<>>]

\* bool(self._bounds_transformer)
Truthy(d) == d # EmptyDict

\* __init__(f, pbounds, random_state, verbose, bounds_transformer, tags)
Construct(tags, bounds_transformer) ==
    /\ phase = "new"
    /\ Called
    /\ LET t == InitTags(tags) IN
       IF ~t.set
       THEN \* for tag in self._tags: no such attribute
            /\ phase' = "failed"
            /\ last' = [Call("construct") EXCEPT !.tags = tags, !.exc = "AttributeError"]
            /\ UNCHANGED <<_tags, _space, _gp, _queue, _bounds_transformer,
                           transformer, _events>>
       ELSE IF bounds_transformer.given /\ bounds_transformer.tag \notin Range(t.tags)
       THEN \* self._space[self.transformer_tag]
            /\ phase' = "failed"
            /\ last' = [Call("construct") EXCEPT !.tags = tags, !.exc = "KeyError"]
            /\ UNCHANGED <<_tags, _space, _gp, _queue, _bounds_transformer,
                           transformer, _events>>
       ELSE /\ phase' = "ok"
            /\ _tags' = t.tags
            /\ _queue' = <<>>
            /\ _bounds_transformer' = EmptyDict
            /\ _space' = [tag \in Range(t.tags) |-> StoreNew(PBounds)]
            /\ _gp' = [tag \in Range(t.tags) |-> <<>>]
            /\ transformer' = IF bounds_transformer.given
                              THEN [set |-> TRUE, tag |-> bounds_transformer.tag]
                              ELSE NoTransformer
            /\ _events' = ObservableInit(DEFAULT_EVENTS)
            /\ last' = [Call("construct") EXCEPT !.tags = tags]

\* Faulty variant of the loop of set_bounds: only the first tag's Store is updated.
SetBoundsFirstOnly(space, tags, i, new_bounds) ==
    LET r == StoreSetBounds(space[tags[1]], new_bounds) IN
    [exc |-> r.exc, space |-> [space EXCEPT ![tags[1]] = r.store]]

\* for tag in self._tags: self._space[tag].set_bounds(new_bounds)
\* [exc, space]
RECURSIVE SetBoundsLoop(_, _, _, _)
SetBoundsLoop(space, tags, i, new_bounds) ==
    IF i > Len(tags)
    THEN [exc |-> NoExc, space |-> space]
    ELSE LET r == StoreSetBounds(space[tags[i]], new_bounds) IN
         IF r.exc # NoExc
         THEN [exc |-> r.exc, space |-> space]
         ELSE SetBoundsLoop([space EXCEPT ![tags[i]] = r.store], tags, i + 1, new_bounds)

\* set_bounds(new_bounds)
SetBounds(new_bounds) ==
    /\ phase = "ok"
    /\ Called
    /\ LET r == SetBoundsLoop(_space, _tags, 1, new_bounds) IN
       /\ _space' = r.space
       /\ last' = [Call("set_bounds") EXCEPT !.arg = <<new_bounds>>, !.exc = r.exc]
    /\ UNCHANGED <<phase, _tags, _gp, _queue, _bounds_transformer, transformer, _events>>

\* Faulty variant of the Store update: the Store of every tag is replaced, as
\* if the tags shared one Store.
WithStoreShared(space, tag, store) == [t \in DOMAIN space |-> store]

\* self._space[tag] after its register / probe has run
WithStore(space, tag, store) == [space EXCEPT ![tag] = store]

\* Faulty variant of register: OPTIMIZATION_STEP is dispatched before the
\* Store is asked to take the observation.
RegisterDispatchFirst(tag, params, target) ==
    /\ phase = "ok"
    /\ Called
    /\ LET call == [Call("register") EXCEPT !.tag = tag, !.arg = <<params>>] IN
       IF tag \notin DOMAIN _space
       THEN /\ last' = [call EXCEPT !.exc = "KeyError"]
            /\ UNCHANGED <<_space, _events>>
       ELSE LET d == Dispatch(_events, OPTIMIZATION_STEP)
                r == StoreRegister(_space[tag], params, target)
                ok == d.exc = NoExc /\ r.exc = NoExc
            IN /\ last' = [call EXCEPT
                               !.dispatched = <<OPTIMIZATION_STEP>>,
                               !.invoked = d.invoked,
                               !.exc = IF d.exc # NoExc THEN d.exc
                                       ELSE IF r.exc # NoExc THEN r.exc
                                       ELSE IF Truthy(_bounds_transformer)
                                       THEN "AttributeError" ELSE NoExc]
               /\ _space' = IF ok THEN WithStore(_space, tag, r.store) ELSE _space
               /\ _events' = d.events
    /\ UNCHANGED <<phase, _tags, _gp, _queue, _bounds_transformer, transformer>>

\* register(tag, params, target)
Register(tag, params, target) ==
    /\ phase = "ok"
    /\ Called
    /\ LET call == [Call("register") EXCEPT !.tag = tag, !.arg = <<params>>] IN
       IF tag \notin DOMAIN _space
       THEN /\ last' = [call EXCEPT !.exc = "KeyError"]
            /\ UNCHANGED <<_space, _events>>
       ELSE LET r == StoreRegister(_space[tag], params, target) IN
            IF r.exc # NoExc
            THEN /\ last' = [call EXCEPT !.exc = r.exc]
                 /\ UNCHANGED <<_space, _events>>
            ELSE LET space1 == WithStore(_space, tag, r.store)
                     d == Dispatch(_events, OPTIMIZATION_STEP)
                     stepped == [call EXCEPT !.dispatched = <<OPTIMIZATION_STEP>>,
                                             !.invoked = d.invoked]
                 IN
                 IF d.exc # NoExc
                 THEN /\ last' = [stepped EXCEPT !.exc = d.exc]
                      /\ _space' = space1
                      /\ _events' = d.events
                 ELSE IF Truthy(_bounds_transformer)
                 THEN \* self._transformer_tag is never assigned
                      /\ last' = [stepped EXCEPT !.exc = "AttributeError"]
                      /\ _space' = space1
                      /\ _events' = d.events
                 ELSE /\ last' = stepped
                      /\ _space' = space1
                      /\ _events' = d.events
    /\ UNCHANGED <<phase, _tags, _gp, _queue, _bounds_transformer, transformer>>

\* probe(tag, params, lazy=True)
Probe(tag, params, lazy) ==
    /\ phase = "ok"
    /\ Called
    /\ LET call == [Call("probe") EXCEPT !.tag = tag, !.arg = <<params>>, !.lazy = lazy] IN
       IF lazy
       THEN /\ _queue' = QueueAdd(_queue, params)
            /\ last' = call
            /\ UNCHANGED <<_space, _events>>
       ELSE IF tag \notin DOMAIN _space
       THEN /\ last' = [call EXCEPT !.exc = "KeyError"]
            /\ UNCHANGED <<_space, _queue, _events>>
       ELSE LET r == StoreProbe(_space[tag], params) IN
            IF r.exc # NoExc
            THEN /\ last' = [call EXCEPT !.exc = r.exc]
                 /\ UNCHANGED <<_space, _queue, _events>>
            ELSE LET d == Dispatch(_events, OPTIMIZATION_STEP) IN
                 /\ _space' = WithStore(_space, tag, r.store)
                 /\ _events' = d.events
                 /\ last' = [call EXCEPT !.evaluated = <<params>>,
                                         !.dispatched = <<OPTIMIZATION_STEP>>,
                                         !.invoked = d.invoked, !.exc = d.exc]
                 /\ UNCHANGED _queue
    /\ UNCHANGED <<phase, _tags, _gp, _bounds_transformer, transformer>>

\* space = self._space[self._tags[0]]
PrimarySpace(space, tags) == space[tags[1]]

\* Faulty variant of the emptiness test of suggest: the last tag's Store is tested.
SuggestIsRandomLastTag(space, tags) == StoreLen(space[tags[Len(tags)]]) = 0

\* if len(space) == 0: return a random sample
SuggestIsRandom(space, tags) == StoreLen(PrimarySpace(space, tags)) = 0

\* for tag in self._tags: self._gp[tag].fit(...)
\* [exc, gp, fits]; fits lists the tags whose fit was called.
RECURSIVE FitLoop(_, _, _, _, _)
FitLoop(gp, space, tags, i, fits) ==
    IF i > Len(tags)
    THEN [exc |-> NoExc, gp |-> gp, fits |-> fits]
    ELSE LET r == GpFit(space[tags[i]]) IN
         IF r.exc # NoExc
         THEN [exc |-> r.exc, gp |-> gp, fits |-> Append(fits, tags[i])]
         ELSE FitLoop([gp EXCEPT ![tags[i]] = r.model], space, tags, i + 1,
                      Append(fits, tags[i]))

\* suggest(utility_function)
Suggest ==
    /\ phase = "ok"
    /\ Called
    /\ LET space == PrimarySpace(_space, _tags) IN
       IF SuggestIsRandom(_space, _tags)
       THEN /\ \E x \in RandomSample(space) :
                  last' = [Call("suggest") EXCEPT !.result = <<ArrayToParams(space, x)>>]
            /\ UNCHANGED _gp
       ELSE LET r == FitLoop(_gp, _space, _tags, 1, <<>>) IN
            /\ _gp' = r.gp
            /\ IF r.exc # NoExc
               THEN last' = [Call("suggest") EXCEPT !.exc = r.exc, !.fits = r.fits]
               ELSE \E x \in AcqMax(space) :
                        last' = [Call("suggest") EXCEPT
                                    !.fits = r.fits, !.acq = 1,
                                    !.result = <<ArrayToParams(space, x)>>]
    /\ UNCHANGED <<phase, _tags, _space, _queue, _bounds_transformer, transformer, _events>>

\* self._queue.empty and space.empty
IsFresh(queue, space, tags) ==
    QueueEmpty(queue) /\ StoreEmpty(PrimarySpace(space, tags))

\* The number of points _prime_queue adds.
PrimeCount(queue, space, tags, init_points) ==
    IF IsFresh(queue, space, tags) THEN Max2(init_points, 1) ELSE init_points

RECURSIVE AddAll(_, _)
AddAll(queue, objs) ==
    IF objs = <<>> THEN queue ELSE AddAll(QueueAdd(queue, Head(objs)), Tail(objs))

\* _prime_queue(init_points)
PrimeQueue(init_points) ==
    /\ phase = "ok"
    /\ Called
    /\ LET n == PrimeCount(_queue, _space, _tags, init_points) IN
       /\ \E samples \in [1..n -> RandomSample(PrimarySpace(_space, _tags))] :
              _queue' = AddAll(_queue, samples)
       /\ last' = [Call("_prime_queue") EXCEPT
                       !.init_points = init_points, !.primed = n,
                       !.fresh = IsFresh(_queue, _space, _tags)]
    /\ UNCHANGED <<phase, _tags, _space, _gp, _bounds_transformer, transformer, _events>>

\* maximize(init_points, n_iter, ...): the body is a TODO that raises at once.
Maximize(init_points, n_iter) ==
    /\ phase = "ok"
    /\ Called
    /\ last' = [Call("maximize") EXCEPT
                    !.exc = "NotImplementedError",
                    !.init_points = init_points, !.n_iter = n_iter,
                    !.fresh = IsFresh(_queue, _space, _tags)]
    /\ UNCHANGED <<phase, _tags, _space, _gp, _queue, _bounds_transformer,
                   transformer, _events>>

\* The max property: its getter takes a tag the attribute access cannot pass.
Max(tag) ==
    /\ phase = "ok"
    /\ Called
    /\ last' = [Call("max") EXCEPT !.tag = tag, !.exc = "TypeError"]
    /\ UNCHANGED <<phase, _tags, _space, _gp, _queue, _bounds_transformer,
                   transformer, _events>>

\* The res property: as max.
Res(tag) ==
    /\ phase = "ok"
    /\ Called
    /\ last' = [Call("res") EXCEPT !.tag = tag, !.exc = "TypeError"]
    /\ UNCHANGED <<phase, _tags, _space, _gp, _queue, _bounds_transformer,
                   transformer, _events>>

\* subscribe(event, subscriber, callback=None)
Subscribe(event, subscriber, callback) ==
    /\ phase = "ok"
    /\ Called
    /\ _events' = [_events EXCEPT ![event] =
                       DictSet(GetSubscribers(_events, event), subscriber,
                               ResolveCallback(subscriber, callback))]
    /\ last' = [Call("subscribe") EXCEPT
                    !.tag = event, !.subscriber = subscriber, !.callback = callback,
                    !.replaced =
                        LET subs == GetSubscribers(_events, event)
                            i == IndexOf(subs, subscriber)
                        IN IF i = 0 THEN <<>> ELSE <<subs[i]>>]
    /\ UNCHANGED <<phase, _tags, _space, _gp, _queue, _bounds_transformer, transformer>>

\* Faulty variant of unsubscribe: a subscriber that is not subscribed is
\* passed over in silence.
UnsubscribeSilently(event, subscriber) ==
    /\ phase = "ok"
    /\ Called
    /\ _events' = [_events EXCEPT ![event] =
                       IF IndexOf(@, subscriber) = 0 THEN @ ELSE DictDel(@, subscriber)]
    /\ last' = [Call("unsubscribe") EXCEPT !.tag = event, !.subscriber = subscriber]
    /\ UNCHANGED <<phase, _tags, _space, _gp, _queue, _bounds_transformer, transformer>>

\* unsubscribe(event, subscriber)
Unsubscribe(event, subscriber) ==
    /\ phase = "ok"
    /\ Called
    /\ IF IndexOf(GetSubscribers(_events, event), subscriber) = 0
       THEN /\ last' = [Call("unsubscribe") EXCEPT !.tag = event, !.subscriber = subscriber, !.exc = "KeyError"]
            /\ UNCHANGED _events
       ELSE /\ _events' = [_events EXCEPT ![event] =
                               DictDel(GetSubscribers(_events, event), subscriber)]
            /\ last' = [Call("unsubscribe") EXCEPT !.tag = event,
                                                   !.subscriber = subscriber]
    /\ UNCHANGED <<phase, _tags, _space, _gp, _queue, _bounds_transformer, transformer>>

Next ==
    \/ \E tags \in TagListInputs, bt \in TransformerInputs : Construct(tags, bt)
    \/ \E tag \in TagInputs, params \in ParamsInputs, target \in Targets :
           Register(tag, params, target)
    \/ \E tag \in TagInputs, params \in ParamsInputs, lazy \in BOOLEAN :
           Probe(tag, params, lazy)
    \/ Suggest
    \/ \E new_bounds \in BoundsInputs : SetBounds(new_bounds)
    \/ \E init_points \in 0..MaxInit : PrimeQueue(init_points)
    \/ \E init_points \in 0..MaxInit, n_iter \in 0..MaxInit : Maximize(init_points, n_iter)
    \/ \E tag \in TagInputs : Max(tag)
    \/ \E tag \in TagInputs : Res(tag)
    \/ \E event \in Range(DEFAULT_EVENTS), subscriber \in Subscribers,
          callback \in CallbackInputs : Subscribe(event, subscriber, callback)
    \/ \E event \in Range(DEFAULT_EVENTS), subscriber \in Subscribers :
          Unsubscribe(event, subscriber)

Spec == Init /\ [][Next]_vars

(***************************************************************************)
(* The event bus of a constructed optimizer: subscribe, unsubscribe and    *)
(* dispatch in any order, with register and probe as dispatching callers.  *)
(***************************************************************************)
BusEvents == {OPTIMIZATION_STEP, OPTIMIZATION_END}
BusSubscribers == {"s1", "s2"}
BusCallbackInputs == {None, "cb_raise", "cb_sub", "cb_unsub"}

\* The optimizer as ConstrainedBayesianOptimization(f, pbounds) leaves it.
BusInit ==
    /\ phase = "ok"
    /\ _tags = DefaultTags
    /\ _space = [tag \in Range(DefaultTags) |-> StoreNew(PBounds)]
    /\ _gp = [tag \in Range(DefaultTags) |-> <<>>]
    /\ _queue = <<>>
    /\ _bounds_transformer = EmptyDict
    /\ transformer = NoTransformer
    /\ _events = ObservableInit(DEFAULT_EVENTS)
    /\ last = Call("construct")
    /\ calls = 0
    /\ hist = NoHistory

\* dispatch(event)
DispatchCall(event) ==
    /\ phase = "ok"
    /\ Called
    /\ LET d == Dispatch(_events, event) IN
       /\ _events' = d.events
       /\ last' = [Call("dispatch") EXCEPT !.tag = event, !.dispatched = <<event>>,
                                          !.invoked = d.invoked, !.exc = d.exc]
    /\ UNCHANGED <<phase, _tags, _space, _gp, _queue, _bounds_transformer, transformer>>

NextBus ==
    \/ \E event \in BusEvents, subscriber \in BusSubscribers,
          callback \in BusCallbackInputs : Subscribe(event, subscriber, callback)
    \/ \E event \in BusEvents, subscriber \in BusSubscribers :
          Unsubscribe(event, subscriber)
    \/ \E event \in BusEvents : DispatchCall(event)
    \/ \E params \in ParamsInputs : Register("objective", params, 0)
    \/ \E params \in ParamsInputs : Probe("constraint", params, FALSE)

SpecBus == BusInit /\ [][NextBus]_vars

(***************************************************************************)
(* A Queue used on its own: add, next and empty in any order.              *)
(***************************************************************************)
QueueItems == ParamsInputs \cup {Array(<<v>>) : v \in Points}

QueueCalled == calls < MaxQueueCalls /\ calls' = calls + 1

\* Queue.add(obj)
QAdd(obj) ==
    /\ QueueCalled
    /\ _queue' = QueueAdd(_queue, obj)
    /\ hist' = [hist EXCEPT !.added = Append(@, obj)]
    /\ last' = [Call("add") EXCEPT !.arg = <<obj>>]
    /\ UNCHANGED <<phase, _tags, _space, _gp, _bounds_transformer, transformer, _events>>

\* Queue.next()
QNext ==
    /\ QueueCalled
    /\ LET r == QueueNext(_queue) IN
       /\ _queue' = r.queue
       /\ hist' = [hist EXCEPT !.returned = @ \o r.obj,
                               !.stops = IF r.exc = NoExc THEN @ ELSE @ + 1]
       /\ last' = [Call("next") EXCEPT !.exc = r.exc, !.result = r.obj]
    /\ UNCHANGED <<phase, _tags, _space, _gp, _bounds_transformer, transformer, _events>>

\* Queue.empty
QEmpty ==
    /\ QueueCalled
    /\ last' = [Call("empty") EXCEPT !.flag = QueueEmpty(_queue)]
    /\ UNCHANGED <<phase, _tags, _space, _gp, _queue, _bounds_transformer,
                   transformer, _events, hist>>

NextQueue ==
    \/ \E obj \in QueueItems : QAdd(obj)
    \/ QNext
    \/ QEmpty

SpecQueue == Init /\ [][NextQueue]_vars

(***************************************************************************)
(* Claims                                                                  *)
(***************************************************************************)
Constructed == phase = "ok"
BoundsOf(store) == [keys |-> store.keys, lo |-> store.lo, hi |-> store.hi]
StepEvents(n) == [i \in 1..n |-> OPTIMIZATION_STEP]
StoreRejections == {"KeyError", "DomainError", "DuplicateObservationError"}

C2_MaximizeDrainsAndTerminates ==
    [][last'.op = "maximize" =>
          /\ last'.exc = NoExc
          /\ _queue' = <<>>
          /\ last'.suggests = last'.n_iter
          /\ Len(last'.evaluated) >= Len(_queue)
          /\ \A i \in 1..Len(_queue) :
                 i <= Len(last'.evaluated) => last'.evaluated[i] = _queue[i]]_vars

\* C3: maximize started with the Queue and the primary Store both empty primes
\* the Queue with exactly max(init_points, 1) random points.
C3_MaximizePrimes ==
    (last.op = "maximize" /\ last.fresh) => last.primed = Max2(last.init_points, 1)

\* C4: register on the driving tag of a configured Bounds Transformer stores
\* the observation, dispatches OPTIMIZATION_STEP, and sets every tag's Store to
\* the bounds the transformer computes from the driving tag's Store.
C4_RegisterTransformsBounds ==
    [][(/\ last'.op = "register"
        /\ last'.exc = NoExc
        /\ transformer.set
        /\ last'.tag = transformer.tag) =>
          /\ StoreLen(_space'[last'.tag]) = StoreLen(_space[last'.tag]) + 1
          /\ last'.dispatched = <<OPTIMIZATION_STEP>>
          /\ \A t \in DOMAIN _space' :
                 BoundsOf(_space'[t]) = Transform(_space'[last'.tag])]_vars

\* C5: a lazy probe only appends params to the end of the Queue, whatever the
\* tag, changing no Store and dispatching nothing; a non-lazy probe leaves the
\* Queue unchanged and, the tag's Store taking the point, appends the
\* evaluation of params to that Store alone and dispatches OPTIMIZATION_STEP
\* exactly once (a point the Store rejects changes and dispatches nothing).
C5_ProbeLazyAndEager ==
    [][last'.op = "probe" =>
          IF last'.lazy
          THEN /\ _queue' = Append(_queue, last'.arg[1])
               /\ _space' = _space
               /\ _gp' = _gp
               /\ last'.exc = NoExc
               /\ last'.dispatched = <<>>
               /\ last'.invoked = <<>>
          ELSE /\ _queue' = _queue
               /\ IF last'.exc \in StoreRejections
                  THEN _space' = _space /\ last'.dispatched = <<>>
                  ELSE /\ last'.tag \in DOMAIN _space
                       /\ last'.dispatched = <<OPTIMIZATION_STEP>>
                       /\ _space'[last'.tag].obs =
                              Append(_space[last'.tag].obs,
                                     [x |-> last'.arg[1].vals,
                                      target |-> last'.arg[1].vals[1]])
                       /\ \A t \in DOMAIN _space \ {last'.tag} :
                              _space'[t] = _space[t]]_vars

\* C5 witness: a non-lazy probe that was evaluated into an empty Store while
\* the Queue held two different lazily probed points.
C5_Witness ==
    /\ last.op = "probe" /\ ~last.lazy /\ last.exc = NoExc
    /\ last.dispatched = <<OPTIMIZATION_STEP>>
    /\ Len(_queue) = 2
    /\ _queue[1] # _queue[2]
    /\ StoreLen(_space[last.tag]) = 1

\* C6: suggest called while the primary tag's Store is empty returns a point
\* within the current bounds and calls neither fit nor the maximizer, whatever
\* the other Stores and the Queue hold.
C6_SuggestOnEmptyIsRandom ==
    (Constructed /\ last.op = "suggest" /\ StoreEmpty(_space[_tags[1]])) =>
        /\ last.exc = NoExc
        /\ last.fits = <<>>
        /\ last.acq = 0
        /\ \A t \in DOMAIN _gp : _gp[t] = <<>>
        /\ Len(last.result) = 1
        /\ last.result[1].keys = _space[_tags[1]].keys
        /\ InBounds(_space[_tags[1]], last.result[1].vals)

\* C6 witness: such a suggest made with an Observation in another tag's Store
\* and a point in the Queue.
C6_Witness ==
    /\ Constructed /\ last.op = "suggest" /\ Len(last.result) = 1
    /\ StoreEmpty(_space[_tags[1]])
    /\ \E t \in DOMAIN _space : ~StoreEmpty(_space[t])
    /\ _queue # <<>>

\* C7: suggest never calls fit for a tag whose Store is empty and never raises
\* EmptyStoreError.
C7_SuggestNeverFitsEmpty ==
    (Constructed /\ last.op = "suggest") =>
        /\ last.exc # "EmptyStoreError"
        /\ \A i \in 1..Len(last.fits) : ~StoreEmpty(_space[last.fits[i]])

\* C8: construction succeeds for the tag list passed, or for the default one,
\* and leaves one Store and one Surrogate Model Slot per tag of that list.
C8_OneStorePerTag ==
    last.op = "construct" =>
        LET want == IF last.tags.given THEN last.tags.tags ELSE DefaultTags IN
        /\ Constructed
        /\ _tags = want
        /\ DOMAIN _space = Range(want)
        /\ DOMAIN _gp = Range(want)

\* C9: all tags' Stores hold the same bounds over the same parameter names in
\* every state, and a set_bounds that returns leaves every Store with the new
\* bounds.
C9_BoundsSharedByAllTags ==
    Constructed =>
        /\ \A t1, t2 \in DOMAIN _space : BoundsOf(_space[t1]) = BoundsOf(_space[t2])
        /\ (last.op = "set_bounds" /\ last.exc = NoExc) =>
               \A t \in DOMAIN _space : BoundsOf(_space[t]) = last.arg[1]

\* C9 witness: set_bounds has narrowed the bounds while the tags' Stores hold
\* different numbers of Observations.
C9_Witness ==
    /\ Constructed /\ last.op = "set_bounds" /\ last.exc = NoExc
    /\ last.arg[1] # PBounds
    /\ \E t1, t2 \in DOMAIN _space : StoreLen(_space[t1]) # StoreLen(_space[t2])

\* C10: max and res queried for a tag return the best Observation and the
\* Observation history of that tag's Store, and fail, with EmptyStoreError,
\* only when that Store is empty.
C10_MaxResPerTag ==
    (last.op \in {"max", "res"} /\ last.tag \in DOMAIN _space) =>
        LET want == IF last.op = "max" THEN StoreMax(_space[last.tag])
                    ELSE StoreRes(_space[last.tag])
        IN last.exc = want.exc /\ last.result = want.value

\* C11: whatever the interleaving of add and next, the objects next has
\* returned, followed by those still queued, are the objects added, in the
\* order they were added: none is returned twice, skipped or overtaken.
C11_QueueFifo ==
    /\ hist.returned \o _queue = hist.added
    /\ (last.op = "next" /\ last.exc = NoExc) =>
           /\ Len(last.result) = 1
           /\ last.result[1] = hist.added[Len(hist.returned)]

\* C11 witness: of four objects added, next has returned the first two, which
\* differ, and the other two wait in the queue.
C11_Witness ==
    /\ last.op = "next" /\ last.exc = NoExc
    /\ Len(hist.returned) = 2 /\ hist.returned[1] # hist.returned[2]
    /\ Len(hist.added) = 4 /\ hist.added[2] # hist.added[3]
    /\ Len(_queue) = 2

\* C12: empty is true exactly when the queue holds nothing and reading it
\* changes nothing; next on an empty queue raises StopIteration, returns no
\* object and leaves the queue empty, and raises only then; an object added to
\* the empty queue is what the next call of next returns.
C12_QueueEmptySignal ==
    [][/\ last'.op = "empty" =>
            /\ last'.flag = (Len(_queue) = 0)
            /\ _queue' = _queue
            /\ hist' = hist
       /\ last'.op = "next" =>
            IF Len(_queue) = 0
            THEN /\ last'.exc = "StopIteration"
                 /\ last'.result = <<>>
                 /\ _queue' = <<>>
                 /\ hist'.returned = hist.returned
            ELSE last'.exc = NoExc
       /\ (last.op = "add" /\ Len(_queue) = 1 /\ last'.op = "next") =>
            last'.result = last.arg]_vars

\* C12 witness: next signalled the empty queue, then an object was added and
\* next returned it.
C12_Witness ==
    /\ last.op = "next" /\ last.exc = NoExc
    /\ hist.stops = 1
    /\ Len(hist.added) = 1 /\ hist.returned = hist.added
    /\ _queue = <<>>

\* C13: subscribing a subscriber again to an event replaces its callback: an
\* event never holds two subscriptions of one subscriber, the subscriber keeps
\* its place and gets the callback given last, every other subscription of
\* that event and of the other events stays as it was, and a dispatch invokes
\* for each subscriber only the callback the table holds for it.
C13_ResubscribeReplaces ==
    [][/\ \A e \in DOMAIN _events' :
            \A i, j \in 1..Len(_events'[e]) :
                _events'[e][i].subscriber = _events'[e][j].subscriber => i = j
       /\ last'.op = "subscribe" =>
            LET e == last'.tag
                old == _events[e]
                new == _events'[e]
                item == [subscriber |-> last'.subscriber,
                         callback |-> ResolveCallback(last'.subscriber,
                                                      last'.callback)]
                held == {i \in 1..Len(old) : old[i].subscriber = last'.subscriber}
            IN /\ \A other \in DOMAIN _events \ {e} : _events'[other] = _events[other]
               /\ IF held = {}
                  THEN new = Append(old, item) /\ last'.replaced = <<>>
                  ELSE /\ Len(new) = Len(old)
                       /\ \A i \in 1..Len(old) :
                              new[i] = IF i \in held THEN item ELSE old[i]
                       /\ \A i \in held : last'.replaced = <<old[i]>>
       /\ last'.op = "dispatch" =>
            \A i \in 1..Len(last'.invoked) :
                /\ i <= Len(_events[last'.tag])
                /\ last'.invoked[i].subscriber = _events[last'.tag][i].subscriber
                /\ last'.invoked[i].callback = _events[last'.tag][i].callback]_vars

\* C13 witness: a subscriber was subscribed again to an event with another
\* callback; it is the first of two subscribers of that event and it is also
\* subscribed to the other event, with the callback it had.
C13_Witness ==
    /\ last.op = "subscribe" /\ last.tag = OPTIMIZATION_STEP
    /\ last.subscriber = "s1" /\ last.callback = "cb_raise"
    /\ last.replaced = <<[subscriber |-> "s1", callback |-> "update"]>>
    /\ Len(_events[OPTIMIZATION_STEP]) = 2
    /\ _events[OPTIMIZATION_STEP][1] = [subscriber |-> "s1", callback |-> "cb_raise"]
    /\ _events[OPTIMIZATION_END] = <<[subscriber |-> "s1", callback |-> "update"]>>

\* C14: unsubscribe of a subscriber that is not subscribed to the event fails
\* with the not-subscribed error (KeyError, from del on the dict) and changes
\* no subscription of any event; unsubscribe of a subscribed one raises
\* nothing and removes that subscription only.
C14_UnsubscribeAbsentFails ==
    [][last'.op = "unsubscribe" =>
          LET subs == _events[last'.tag]
              held == {i \in 1..Len(subs) : subs[i].subscriber = last'.subscriber}
          IN IF held = {}
             THEN last'.exc = "KeyError" /\ _events' = _events
             ELSE /\ last'.exc = NoExc
                  /\ Len(_events'[last'.tag]) = Len(subs) - 1
                  /\ \A i \in 1..Len(_events'[last'.tag]) :
                         _events'[last'.tag][i].subscriber # last'.subscriber
                  /\ \A e \in DOMAIN _events \ {last'.tag} :
                         _events'[e] = _events[e]]_vars

\* C14 witness: unsubscribe failed for a subscriber that is subscribed to the
\* other event only, while the event named has another subscriber.
C14_Witness ==
    /\ last.op = "unsubscribe" /\ last.exc = "KeyError"
    /\ last.tag = OPTIMIZATION_STEP /\ last.subscriber = "s1"
    /\ Len(_events[OPTIMIZATION_STEP]) = 1
    /\ _events[OPTIMIZATION_STEP][1].subscriber = "s2"
    /\ Len(_events[OPTIMIZATION_END]) = 1
    /\ _events[OPTIMIZATION_END][1].subscriber = "s1"

\* C15: a dispatch of an event, made by dispatch itself or by register or
\* probe, invokes callbacks of that event's subscribers only, each at most
\* once, in the order they subscribed, passing the event's name; when it
\* returns normally it has invoked every subscriber the event has.
C15_DispatchInOrder ==
    [][Len(last'.dispatched) = 1 =>
          LET e == last'.dispatched[1]
              subs == _events[e]
          IN /\ Len(last'.invoked) <= Len(subs)
             /\ \A i \in 1..Len(last'.invoked) :
                    last'.invoked[i] = [subscriber |-> subs[i].subscriber,
                                        callback |-> subs[i].callback,
                                        event |-> e]
             /\ last'.exc = NoExc => Len(last'.invoked) = Len(subs)]_vars

\* C15 witness: a dispatch returned after invoking the two subscribers of its
\* event, the one that subscribed first being "s2", while the other event has
\* a subscriber of its own.
C15_Witness ==
    /\ last.op = "dispatch" /\ last.exc = NoExc
    /\ last.dispatched = <<OPTIMIZATION_STEP>>
    /\ Len(last.invoked) = 2
    /\ last.invoked[1].subscriber = "s2" /\ last.invoked[2].subscriber = "s1"
    /\ last.invoked[1].event = OPTIMIZATION_STEP
    /\ Len(_events[OPTIMIZATION_END]) = 1

\* C16: when the first callback of a dispatch that does not return normally
\* is one that raises, its exception is what dispatch, and the register or
\* non-lazy probe that dispatched, raises; the raising callback is the last
\* one invoked and the subscription table is as before the call. A call
\* raises a callback's exception in no other case.
C16_CallbackErrorPropagates ==
    [][LET e == IF Len(last'.dispatched) = 1 THEN last'.dispatched[1]
                ELSE OPTIMIZATION_STEP
           subs == _events[e]
           ending == {i \in 1..Len(subs) :
                         \/ CallbackRaises(subs[i].callback)
                         \/ CallbackResizes(_events, e, subs[i].subscriber,
                                            subs[i].callback)}
           raising == {i \in ending : /\ CallbackRaises(subs[i].callback)
                                      /\ \A j \in ending : i <= j}
       IN /\ (Len(last'.dispatched) = 1 /\ raising # {}) =>
               /\ last'.op \in {"dispatch", "register", "probe"}
               /\ last'.exc = "CallbackError"
               /\ \A i \in raising : /\ Len(last'.invoked) = i
                                     /\ last'.invoked[i].subscriber = subs[i].subscriber
               /\ _events' = _events
          /\ last'.exc = "CallbackError" =>
               Len(last'.dispatched) = 1 /\ raising # {}]_vars

\* C16 witness: register raised what the first subscriber's callback raised;
\* the second subscriber of the step event was not invoked and both are still
\* subscribed.
C16_Witness ==
    /\ last.op = "register" /\ last.exc = "CallbackError"
    /\ last.dispatched = <<OPTIMIZATION_STEP>>
    /\ Len(last.invoked) = 1 /\ last.invoked[1].callback = "cb_raise"
    /\ Len(_events[OPTIMIZATION_STEP]) = 2
    /\ _events[OPTIMIZATION_STEP][2].callback = "update"

\* C17: a suggest made while the primary tag's Store holds an Observation
\* raises nothing, has called fit once for every tag, in the order of the tag
\* list, and has then run the Acquisition Maximizer once; its result lies in
\* the primary tag's Bounds.
C17_SuggestFitsAllThenMaximizes ==
    (Constructed /\ last.op = "suggest"
        /\ ~StoreEmpty(PrimarySpace(_space, _tags))) =>
        /\ last.exc = NoExc
        /\ last.fits = _tags
        /\ last.acq = 1
        /\ Len(last.result) = 1
        /\ InBounds(PrimarySpace(_space, _tags),
                    AsArray(PrimarySpace(_space, _tags), last.result[1]).vals)

\* C18: a register whose tag's Store rejects the observation, as a duplicate
\* or as outside the domain, raises the Store's error, dispatches nothing and
\* invokes no callback, and leaves the Bounds, the length, max() and res() of
\* every tag's Store, the Queue and the subscriptions as they were.
C18_RejectedRegisterChangesNothing ==
    [][/\ (last'.op = "register" /\ last'.tag \in DOMAIN _space) =>
            \A exc \in {"DomainError", "DuplicateObservationError"} :
                (\A target \in Targets :
                    StoreRegister(_space[last'.tag], last'.arg[1], target).exc = exc)
                        => last'.exc = exc
       /\ (/\ last'.op = "register"
           /\ last'.exc \in {"DomainError", "DuplicateObservationError"}) =>
            /\ last'.dispatched = <<>>
            /\ last'.invoked = <<>>
            /\ DOMAIN _space' = DOMAIN _space
            /\ \A t \in DOMAIN _space :
                   /\ BoundsOf(_space'[t]) = BoundsOf(_space[t])
                   /\ StoreLen(_space'[t]) = StoreLen(_space[t])
                   /\ StoreMax(_space'[t]) = StoreMax(_space[t])
                   /\ StoreRes(_space'[t]) = StoreRes(_space[t])
            /\ _queue' = _queue
            /\ _events' = _events]_vars

\* C18 witness: register was refused as a duplicate by a Store that holds an
\* Observation, while the step event has a subscriber.
C18_Witness ==
    /\ last.op = "register" /\ last.exc = "DuplicateObservationError"
    /\ last.tag \in DOMAIN _space
    /\ StoreLen(_space[last.tag]) = 1
    /\ Len(_events[OPTIMIZATION_STEP]) = 1
    /\ last.dispatched = <<>>

\* C19: register and non-lazy probe on a tag leave the Observations of every
\* other tag's Store and the Queue as they were; the named tag's Store gains
\* one Observation exactly when OPTIMIZATION_STEP was dispatched and none
\* otherwise.
C19_OnlyNamedStoreGrows ==
    [][(/\ last'.op \in {"register", "probe"}
        /\ ~last'.lazy
        /\ last'.tag \in DOMAIN _space) =>
          /\ DOMAIN _space' = DOMAIN _space
          /\ \A t \in DOMAIN _space \ {last'.tag} :
                 /\ StoreLen(_space'[t]) = StoreLen(_space[t])
                 /\ StoreRes(_space'[t]) = StoreRes(_space[t])
          /\ StoreLen(_space'[last'.tag]) =
                 IF last'.dispatched = <<OPTIMIZATION_STEP>>
                 THEN StoreLen(_space[last'.tag]) + 1
                 ELSE StoreLen(_space[last'.tag])
          /\ _queue' = _queue]_vars

\* C19 witness: after a register and a non-lazy probe on "constraint" that
\* Store holds two Observations and the Store of "objective" none, with a
\* point waiting in the Queue.
C19_Witness ==
    /\ Constructed /\ last.op = "probe" /\ ~last.lazy /\ last.exc = NoExc
    /\ last.tag = "constraint"
    /\ DOMAIN _space = {"objective", "constraint"}
    /\ StoreLen(_space["constraint"]) = 2
    /\ StoreLen(_space["objective"]) = 0
    /\ Len(_queue) = 1

\* C20: a dispatch during which a callback subscribes a new subscriber to the
\* event, or unsubscribes its own subscriber from it, and no callback raises,
\* returns normally having invoked, once and in order, every subscriber the
\* event had when the dispatch began.
C20_DispatchSurvivesResubscription ==
    [][LET e == IF Len(last'.dispatched) = 1 THEN last'.dispatched[1]
                ELSE OPTIMIZATION_STEP
           subs == _events[e]
       IN (/\ Len(last'.dispatched) = 1
           /\ \E i \in 1..Len(subs) : subs[i].callback \in {"cb_sub", "cb_unsub"}
           /\ \A i \in 1..Len(subs) : ~CallbackRaises(subs[i].callback)) =>
             /\ last'.exc = NoExc
             /\ last'.invoked = [i \in 1..Len(subs) |-> Invocation(subs[i], e)]]_vars

====
